---- MODULE Spec2Model ----
(***************************************************************************)
(* Model of the buffed-io cursor (src/lib.rs, Buffered<T>) over the byte   *)
(* container (src/bytes.rs, Bytes) and of its big-endian codec.             *)
(*                                                                         *)
(* Offsets are 0-based as in the source; the byte vector is a TLA+         *)
(* sequence, so the source's bytes[a..b] is SubSeq(bytes, a + 1, b).       *)
(*                                                                         *)
(* Integer values of at most 24 bits and i32 are TLA+ integers.  u32, u64  *)
(* and i64 do not fit TLC's integers: they are little-endian sequences of  *)
(* 16-bit limbs (value = limb[1] + limb[2] * 2^16 + ...), the top limb of  *)
(* an i64 being signed.  Positions stay far below 2^64, so an addition on  *)
(* usize never wraps in the model; the subtraction in remaining() can      *)
(* underflow and is modelled for both builds (overflow checks on or off).  *)
(***************************************************************************)
EXTENDS Integers, Sequences, FiniteSets, TLC

\* ---------------------------------------------------------------- bounds
\* calls made by a caller that calls freely
MaxOps == 2
\* puts made by a caller that writes a run of fields and reads it back
MaxPuts == 2
\* largest argument of set_position
MaxPos == 5
\* calls a free caller makes before it inspects the cursor
MaxOpsBeforeQuery == 1
\* largest bound of a range the container is indexed with
MaxIdx == 2
\* frames the stack holds before it overflows
MaxFrames == 3

\* -------------------------------------------------------------- helpers
RECURSIVE Pow256(_)
Pow256(n) == IF n = 0 THEN 1 ELSE 256 * Pow256(n - 1)

Limb == 256 * 256

Zeros(n) == [i \in 1..n |-> 0]

None == <<>>
Some(v) == <<v>>

\* mem::size_of::<$byte_ty>() of the macro, and 3 for the 24-bit field
SIZE(T) ==
    CASE T \in {"u8", "i8"} -> 1
      [] T \in {"u16", "i16"} -> 2
      [] T = "u24" -> 3
      [] T \in {"u32", "i32"} -> 4
      [] T \in {"u64", "i64"} -> 8

Signed(T) == T \in {"i8", "i16", "i32", "i64"}

\* types whose values are held as 16-bit limbs
Wide(T) == T \in {"u32", "u64", "i64"}

\* ToSlice::item_size_hint for Bytes
item_size_hint == 1

\* ------------------------------------------------------- integer codecs
\* T::to_be_bytes(value): the most significant byte first (and, for
\* comparison, the least significant byte first)
to_be_bytes_reversed(T, value) ==
    LET w == SIZE(T) IN
    IF Wide(T)
    THEN [i \in 1..w |->
            LET l == value[((i - 1) \div 2) + 1] % Limb
            IN IF i % 2 = 1 THEN l % 256 ELSE l \div 256]
    ELSE [i \in 1..w |-> (value \div Pow256(i - 1)) % 256]

to_be_bytes(T, value) ==
    LET w == SIZE(T) IN
    IF Wide(T)
    THEN [i \in 1..w |->
            LET l == value[((w - i) \div 2) + 1] % Limb
            IN IF (w - i) % 2 = 1 THEN l \div 256 ELSE l % 256]
    ELSE [i \in 1..w |-> (value \div Pow256(w - i)) % 256]

\* the byte at significance k (0 = least) of a slice read as T, with the
\* sign of the type carried by the most significant byte
BeDigit(T, slice, k) ==
    LET w == SIZE(T)
        b == slice[w - k]
    IN IF Signed(T) /\ k = w - 1 /\ b >= 128 THEN b - 256 ELSE b

LeDigit(T, slice, k) ==
    LET w == SIZE(T)
        b == slice[k + 1]
    IN IF Signed(T) /\ k = w - 1 /\ b >= 128 THEN b - 256 ELSE b

RECURSIVE SumDigits(_, _, _, _)
SumDigits(T, slice, k, le) ==
    IF k < 0 THEN 0
    ELSE (IF le THEN LeDigit(T, slice, k) ELSE BeDigit(T, slice, k)) * Pow256(k)
         + SumDigits(T, slice, k - 1, le)

\* T::from_be_bytes(slice)
from_be_bytes_reversed(T, slice) ==
    LET w == SIZE(T) IN
    IF Wide(T)
    THEN [j \in 1..(w \div 2) |->
            LeDigit(T, slice, 2 * j - 1) * 256 + LeDigit(T, slice, 2 * j - 2)]
    ELSE SumDigits(T, slice, w - 1, TRUE)

from_be_bytes(T, slice) ==
    LET w == SIZE(T) IN
    IF Wide(T)
    THEN [j \in 1..(w \div 2) |->
            BeDigit(T, slice, 2 * j - 1) * 256 + BeDigit(T, slice, 2 * j - 2)]
    ELSE SumDigits(T, slice, w - 1, FALSE)

\* composite::read_u24
read_u24(buf) == (buf[1] * 65536) + (buf[2] * 256) + (buf[3] % 256)

\* value >> n for n in {0, 8, 16} on a u32 held as <<low limb, high limb>>,
\* followed by `as u8`
ShrAsU8(value, n) ==
    CASE n = 0 -> value[1] % 256
      [] n = 8 -> ((value[1] \div 256) + (value[2] % 256) * 256) % 256
      [] n = 16 -> value[2] % 256

\* composite::write_u24
write_u24_high(value) ==
    <<value[2] \div 256, ShrAsU8(value, 16), ShrAsU8(value, 8)>>

write_u24(value) ==
    <<ShrAsU8(value, 16), ShrAsU8(value, 8), ShrAsU8(value, 0)>>

\* ---------------------------------------------------------------- UTF-8
Cont(b) == b >= 128 /\ b <= 191

\* String::from_utf8 accepts exactly the well-formed UTF-8 sequences
RECURSIVE ValidUtf8(_)
ValidUtf8(s) ==
    IF s = <<>> THEN TRUE
    ELSE LET b == s[1]
             n == Len(s)
         IN CASE b <= 127 -> ValidUtf8(Tail(s))
              [] b >= 194 /\ b <= 223 ->
                    n >= 2 /\ Cont(s[2]) /\ ValidUtf8(SubSeq(s, 3, n))
              [] b >= 224 /\ b <= 239 ->
                    /\ n >= 3
                    /\ Cont(s[2]) /\ Cont(s[3])
                    /\ (b = 224 => s[2] >= 160)
                    /\ (b = 237 => s[2] <= 159)
                    /\ ValidUtf8(SubSeq(s, 4, n))
              [] b >= 240 /\ b <= 244 ->
                    /\ n >= 4
                    /\ Cont(s[2]) /\ Cont(s[3]) /\ Cont(s[4])
                    /\ (b = 240 => s[2] >= 144)
                    /\ (b = 244 => s[2] <= 143)
                    /\ ValidUtf8(SubSeq(s, 5, n))
              [] OTHER -> FALSE

\* a String is its UTF-8 bytes: str::as_bytes exposes them, String::len
\* counts them
as_bytes(s) == s

\* --------------------------------------------------------------- cursor
\* Buffered::advance_index
advance_index_twice(p, amount) == p + 2 * amount * item_size_hint

advance_index_back(p, amount) == p - amount * item_size_hint

advance_index(p, amount) == p + amount * item_size_hint

\* Buffered::remaining: buffer.len() - pos on usize.  With overflow checks
\* the subtraction panics when pos > len; without them it wraps to
\* 2^64 - (pos - len), written here as the pair <<"wrapped", pos - len>>.
remaining(b, p, checks) ==
    IF p <= Len(b) THEN [kind |-> "ok", value |-> Len(b) - p]
    ELSE IF checks THEN [kind |-> "panic", value |-> 0]
    ELSE [kind |-> "wrapped", value |-> p - Len(b)]

\* Buffered::is_available: remaining() >= amount.  A wrapped remainder is
\* at least 2^64 - MaxPos, above every amount asked for.
is_available_strict(b, p, amount, checks) ==
    LET r == remaining(b, p, checks)
    IN CASE r.kind = "ok" -> [kind |-> "ok", value |-> r.value > amount]
         [] r.kind = "wrapped" -> [kind |-> "ok", value |-> TRUE]
         [] OTHER -> [kind |-> "panic", value |-> FALSE]

is_available(b, p, amount, checks) ==
    LET r == remaining(b, p, checks)
    IN CASE r.kind = "ok" -> [kind |-> "ok", value |-> r.value >= amount]
         [] r.kind = "wrapped" -> [kind |-> "ok", value |-> TRUE]
         [] OTHER -> [kind |-> "panic", value |-> FALSE]

\* ---------------------------------------------------------------- reads
\* results of a read: kind is "ok", "eof" (UnexpectedEof), "invalid_data"
\* or "panic"; value is Some(v) on "ok"; pos is the position afterwards
Res(kind, value, p) == [kind |-> kind, value |-> value, pos |-> p]

\* macro impl_get_bytes
impl_get_bytes_advance_first(b, p, T) ==
    IF p + SIZE(T) > Len(b) THEN Res("eof", None, advance_index(p, SIZE(T)))
    ELSE Res("ok", Some(from_be_bytes(T, SubSeq(b, p + 1, p + SIZE(T)))),
             advance_index(p, SIZE(T)))

impl_get_bytes(b, p, T) ==
    LET limit == Len(b) IN
    IF p + SIZE(T) > limit THEN Res("eof", None, p)
    ELSE Res("ok", Some(from_be_bytes(T, SubSeq(b, p + 1, p + SIZE(T)))),
             advance_index(p, SIZE(T)))

\* Buffered<Bytes>::get_u24; the slice bytes[pos..pos + 3] panics when its
\* end is past the length
get_u24_op(b, p, checks) ==
    LET a == is_available(b, p, 3, checks) IN
    IF a.kind = "panic" THEN Res("panic", None, p)
    ELSE IF a.value
         THEN IF p + 3 > Len(b) THEN Res("panic", None, p)
              ELSE Res("ok", Some(read_u24(SubSeq(b, p + 1, p + 3))),
                       advance_index(p, 3))
         ELSE Res("eof", None, p)

\* self.iter().position(|c| *c == 0): the offset of the first zero byte of
\* the whole buffer, -1 for Option::None
FirstZero(b) ==
    IF \E i \in 1..Len(b) : b[i] = 0
    THEN (CHOOSE i \in 1..Len(b) : b[i] = 0 /\ \A j \in 1..(i - 1) : b[j] # 0) - 1
    ELSE -1

\* Buffered<Bytes>::get_str; the slice bytes[pos..index] panics when
\* pos > index
get_str_op_advance_always(b, p) ==
    LET index == FirstZero(b) IN
    IF index < 0 THEN Res("eof", None, p)
    ELSE IF p > index THEN Res("panic", None, p)
    ELSE LET str == SubSeq(b, p + 1, index)
         IN IF ValidUtf8(str) THEN Res("ok", Some(str), p + Len(str) + 1)
            ELSE Res("invalid_data", None, p + Len(str) + 1)

\* (variants: the end of the buffer taken as a terminator; the terminator
\* counted twice)
get_str_op_eof_terminates(b, p) ==
    LET index == IF FirstZero(b) < 0 THEN Len(b) ELSE FirstZero(b) IN
    IF p > index THEN Res("panic", None, p)
    ELSE LET str == SubSeq(b, p + 1, index)
         IN IF ValidUtf8(str) THEN Res("ok", Some(str), p + Len(str) + 1)
            ELSE Res("invalid_data", None, p)

get_str_op_skip_two(b, p) ==
    LET index == FirstZero(b) IN
    IF index < 0 THEN Res("eof", None, p)
    ELSE IF p > index THEN Res("panic", None, p)
    ELSE LET str == SubSeq(b, p + 1, index)
         IN IF ValidUtf8(str) THEN Res("ok", Some(str), p + Len(str) + 2)
            ELSE Res("invalid_data", None, p)

get_str_op(b, p) ==
    LET index == FirstZero(b) IN
    IF index < 0 THEN Res("eof", None, p)
    ELSE IF p > index THEN Res("panic", None, p)
    ELSE LET str == SubSeq(b, p + 1, index)
         IN IF ValidUtf8(str) THEN Res("ok", Some(str), p + Len(str) + 1)
            ELSE Res("invalid_data", None, p)

\* --------------------------------------------------------------- writes
\* Vec::resize(new_len, 0) (and a variant that never leaves the vector empty)
resize_at_least_one(b, new_len) ==
    LET n == IF new_len = 0 THEN 1 ELSE new_len IN
    IF n <= Len(b) THEN SubSeq(b, 1, n)
    ELSE b \o Zeros(n - Len(b))

resize(b, new_len) ==
    IF new_len <= Len(b) THEN SubSeq(b, 1, new_len)
    ELSE b \o Zeros(new_len - Len(b))

\* results of a write: kind is "done" or "panic"
WRes(kind, b, p) == [kind |-> kind, bytes |-> b, pos |-> p]

\* macro impl_put_bytes; the slice bytes[pos..pos + slice_len] panics when
\* its end is past the (possibly doubled) length (variants: growth only when
\* pos + slice_len > len; growth into a fresh zeroed vector)
impl_put_bytes_gt(b, p, value) ==
    LET slice_len == Len(value)
        buf_len == Len(b)
        grown == IF p + slice_len > buf_len THEN resize(b, buf_len * 2) ELSE b
    IN IF p + slice_len > Len(grown) THEN WRes("panic", grown, p)
       ELSE WRes("done",
                 [i \in 1..Len(grown) |->
                    IF i > p /\ i <= p + slice_len THEN value[i - p] ELSE grown[i]],
                 advance_index(p, slice_len))

impl_put_bytes_fresh(b, p, value) ==
    LET slice_len == Len(value)
        buf_len == Len(b)
        grown == IF p + slice_len >= buf_len THEN Zeros(buf_len * 2) ELSE b
    IN IF p + slice_len > Len(grown) THEN WRes("panic", grown, p)
       ELSE WRes("done",
                 [i \in 1..Len(grown) |->
                    IF i > p /\ i <= p + slice_len THEN value[i - p] ELSE grown[i]],
                 advance_index(p, slice_len))

impl_put_bytes(b, p, value) ==
    LET slice_len == Len(value)
        buf_len == Len(b)
        grown == IF p + slice_len >= buf_len THEN resize(b, buf_len * 2) ELSE b
    IN IF p + slice_len > Len(grown) THEN WRes("panic", grown, p)
       ELSE WRes("done",
                 [i \in 1..Len(grown) |->
                    IF i > p /\ i <= p + slice_len THEN value[i - p] ELSE grown[i]],
                 advance_index(p, slice_len))

\* Buffered<Bytes>::put_str: the bytes of the string, then put_u8(0)
put_str_op(b, p, value) ==
    LET first == impl_put_bytes(b, p, as_bytes(value)) IN
    IF first.kind = "panic" THEN first
    ELSE impl_put_bytes(first.bytes, first.pos, to_be_bytes("u8", 0))

\* ------------------------------------------------------ range indexing
\* outcome of Index::index: "ok" with the slice returned, "stack_overflow"
\* when the recursion exhausts the stack, "diverges" where the build turns
\* the self-call in tail position into a loop
IRes(kind, value) == [kind |-> kind, value |-> value]

NoReturn(loops) ==
    IF loops THEN IRes("diverges", None) ELSE IRes("stack_overflow", None)

\* <Bytes as Index<RangeInclusive<usize>>>::index.  In `&self[start..=end]`
\* self is a Bytes, and Bytes implements Index<RangeInclusive<usize>>: the
\* expression is this same function called with the same arguments, not
\* the slice's indexing.
\* (second form: only end < start falls back)
RECURSIVE index_range_inclusive_lt(_, _, _, _, _)
index_range_inclusive_lt(b, s, e, frames, loops) ==
    IF e < s THEN IRes("ok", Some(<<>>))
    ELSE IF frames = 0 THEN NoReturn(loops)
    ELSE index_range_inclusive_lt(b, s, e, frames - 1, loops)

RECURSIVE index_range_inclusive(_, _, _, _, _)
index_range_inclusive(b, s, e, frames, loops) ==
    LET start_ == s
        end_ == e
    IN IF end_ <= start_ THEN IRes("ok", Some(<<>>))
       ELSE IF frames = 0 THEN NoReturn(loops)
       ELSE index_range_inclusive(b, start_, end_, frames - 1, loops)

\* <Bytes as Index<RangeTo<usize>>>::index; `&self[..end]` is the same
\* function again
RECURSIVE index_range_to(_, _, _, _)
index_range_to(b, e, frames, loops) ==
    IF e = 0 THEN IRes("ok", Some(<<>>))
    ELSE IF frames = 0 THEN NoReturn(loops)
    ELSE index_range_to(b, e, frames - 1, loops)

\* <Bytes as Index<RangeFrom<usize>>>::index; `&self[start..]` is the same
\* function again
RECURSIVE index_range_from(_, _, _, _)
index_range_from(b, s, frames, loops) ==
    IF s >= Len(b) THEN IRes("ok", Some(<<>>))
    ELSE IF frames = 0 THEN NoReturn(loops)
    ELSE index_range_from(b, s, frames - 1, loops)

\* Buffered::index: pos / T::item_size_hint()
index_op(p) == p \div item_size_hint

\* [u8]::is_empty through Deref
is_empty_op(b) == Len(b) = 0

\* ---------------------------------------------------------------- state
VARIABLES
    bytes,      \* Bytes.bytes, the byte vector of the container
    pos,        \* Buffered.pos
    status,     \* "running", or "panicked" once an operation has aborted
    last,       \* the last call: its name, argument, outcome and pre-state
    start,      \* the position at which the current run of puts started
    wlog,       \* the puts of the current run, in order
    replay,     \* after set_position(start): the puts still to be read back
    script,     \* TRUE: the caller writes a run of fields, then reads it back
    nops        \* calls made so far

vars == <<bytes, pos, status, last, start, wlog, replay, script, nops>>

\* the vectors a cursor is constructed over (Bytes::new, From<Vec<u8>>,
\* From<&[u8]>, Default)
InitBufs ==
    { <<>>,
      <<10>>,
      <<127, 255>>,
      <<128, 0>>,
      <<255, 0>>,
      <<97, 0, 98, 0>>,
      <<1, 2, 3, 4, 5, 6, 7, 8>>,
      <<255, 254, 253, 252, 251, 250, 249, 248>>,
      Zeros(8) }

GetTypes == {"u8", "i8", "u16", "i16", "u24", "i32", "u32", "i64", "u64"}
PutTypes == {"u8", "i8", "u16", "i16", "u24", "i32", "u32", "u64"}

\* the values written; the argument of put_u24 is a u32
PutVals(T) ==
    CASE T = "u8" -> {0, 171}
      [] T = "i8" -> {-128, 5}
      [] T = "u16" -> {258, 65534}
      [] T = "i16" -> {-32768, 259}
      [] T = "u24" -> {<<48076, 170>>, <<48076, 65450>>, <<65535, 65535>>}
      [] T = "i32" -> {-2, 16909060}
      [] T = "u32" -> {<<772, 258>>, <<65534, 65535>>}
      [] T = "u64" -> {<<1800, 1286, 772, 258>>, <<65534, 65535, 65535, 65535>>}

\* the strings written: "", "hi", "e-acute" (two bytes)
PutStrs == { <<>>, <<104, 105>>, <<195, 169>> }

IsGet(op) ==
    op \in {"get_u8", "get_i8", "get_i16", "get_u16", "get_u24", "get_i32",
            "get_u32", "get_i64", "get_u64", "get_str"}

IsPut(op) ==
    op \in {"put_u8", "put_i8", "put_i16", "put_u16", "put_u24", "put_i32",
            "put_u32", "put_u64", "put_str"}

\* what the caller does next.  A free caller makes any MaxOps calls.  A
\* scripted caller may seek once, makes up to MaxPuts puts, seeks back to
\* where the run started and reads the fields back in the order written.
CallerGets(T) ==
    /\ status = "running"
    /\ IF script THEN replay # <<>> /\ Head(replay).ty = T
       ELSE nops < MaxOps

CallerPuts ==
    /\ status = "running"
    /\ IF script THEN replay = <<>> /\ ~IsGet(last.op) /\ Len(wlog) < MaxPuts
       ELSE nops < MaxOps

CallerSeeks(index) ==
    /\ status = "running"
    /\ IF script THEN \/ last.op = "using"
                      \/ wlog # <<>> /\ index = start
       ELSE nops < MaxOps

\* a free caller may end its calls by inspecting the cursor: a query or a
\* range index, after at most MaxOpsBeforeQuery other calls
CallerInspects ==
    /\ status = "running"
    /\ ~script
    /\ nops <= MaxOpsBeforeQuery
    /\ nops < MaxOps

Call(op, ty, arg, kind, value, expect, seq) ==
    [op |-> op, ty |-> ty, arg |-> arg, kind |-> kind, value |-> value,
     pos0 |-> pos, bytes0 |-> bytes, expect |-> expect, seq |-> seq]

\* Buffered::using(container) / Buffered::new(): pos = 0
Init ==
    /\ bytes \in InitBufs
    /\ pos = 0
    /\ status = "running"
    /\ last = Call("using", "none", None, "done", None, None, 0)
    /\ start = 0
    /\ wlog = <<>>
    /\ replay = <<>>
    /\ script \in BOOLEAN
    /\ nops = 0

\* a get_* call with outcome r (and a variant that clears the bytes it read)
ReadStep_draining(op, T, r) ==
    LET match == replay # <<>> /\ Head(replay).ty = T IN
    /\ CallerGets(T)
    /\ pos' = r.pos
    /\ bytes' = [i \in 1..Len(bytes) |->
                    IF r.kind = "ok" /\ i > pos /\ i <= r.pos THEN 0 ELSE bytes[i]]
    /\ status' = IF r.kind = "panic" THEN "panicked" ELSE "running"
    /\ last' = Call(op, T, None, r.kind, r.value,
                    IF match THEN Some(Head(replay).value) ELSE None,
                    IF match THEN (IF last.expect # None THEN last.seq + 1 ELSE 1)
                    ELSE 0)
    /\ replay' = IF match /\ r.kind = "ok" THEN Tail(replay) ELSE <<>>
    /\ wlog' = <<>>
    /\ start' = r.pos
    /\ nops' = nops + 1
    /\ UNCHANGED script

ReadStep(op, T, r) ==
    LET match == replay # <<>> /\ Head(replay).ty = T IN
    /\ CallerGets(T)
    /\ pos' = r.pos
    /\ status' = IF r.kind = "panic" THEN "panicked" ELSE "running"
    /\ last' = Call(op, T, None, r.kind, r.value,
                    IF match THEN Some(Head(replay).value) ELSE None,
                    IF match THEN (IF last.expect # None THEN last.seq + 1 ELSE 1)
                    ELSE 0)
    /\ replay' = IF match /\ r.kind = "ok" THEN Tail(replay) ELSE <<>>
    /\ wlog' = <<>>
    /\ start' = r.pos
    /\ nops' = nops + 1
    /\ UNCHANGED <<bytes, script>>

\* a put_* call with outcome r
WriteStep(op, T, value, r) ==
    /\ CallerPuts
    /\ bytes' = r.bytes
    /\ pos' = r.pos
    /\ status' = IF r.kind = "panic" THEN "panicked" ELSE "running"
    /\ last' = Call(op, T, Some(value), r.kind, None, None, 0)
    /\ wlog' = IF r.kind = "done" THEN Append(wlog, [ty |-> T, value |-> value])
               ELSE <<>>
    /\ replay' = <<>>
    /\ nops' = nops + 1
    /\ UNCHANGED <<start, script>>

get_u8 == ReadStep("get_u8", "u8", impl_get_bytes(bytes, pos, "u8"))
get_i8 == ReadStep("get_i8", "i8", impl_get_bytes(bytes, pos, "i8"))
get_i16 == ReadStep("get_i16", "i16", impl_get_bytes(bytes, pos, "i16"))
get_u16 == ReadStep("get_u16", "u16", impl_get_bytes(bytes, pos, "u16"))
get_u24 ==
    \E checks \in BOOLEAN :
        ReadStep("get_u24", "u24", get_u24_op(bytes, pos, checks))
get_i32 == ReadStep("get_i32", "i32", impl_get_bytes(bytes, pos, "i32"))
get_u32 == ReadStep("get_u32", "u32", impl_get_bytes(bytes, pos, "u32"))
get_i64 == ReadStep("get_i64", "i64", impl_get_bytes(bytes, pos, "i64"))
get_u64 == ReadStep("get_u64", "u64", impl_get_bytes(bytes, pos, "u64"))
get_str == ReadStep("get_str", "str", get_str_op(bytes, pos))

PutInt(op, T) ==
    \E value \in PutVals(T) :
        WriteStep(op, T, value, impl_put_bytes(bytes, pos, to_be_bytes(T, value)))

put_u8 == PutInt("put_u8", "u8")
put_i8 == PutInt("put_i8", "i8")
put_i16 == PutInt("put_i16", "i16")
put_u16 == PutInt("put_u16", "u16")
put_u24 ==
    \E value \in PutVals("u24") :
        WriteStep("put_u24", "u24", value,
                  impl_put_bytes(bytes, pos, write_u24(value)))
put_i32 == PutInt("put_i32", "i32")
put_u32 == PutInt("put_u32", "u32")
put_u64 == PutInt("put_u64", "u64")
put_str ==
    \E value \in PutStrs :
        WriteStep("put_str", "str", value, put_str_op(bytes, pos, value))

\* Buffered::set_position
set_position ==
    \E index \in 0..MaxPos :
        /\ CallerSeeks(index)
        /\ pos' = index
        /\ last' = Call("set_position", "none", Some(index), "done", None, None, 0)
        /\ replay' = IF wlog # <<>> /\ index = start THEN wlog ELSE <<>>
        /\ wlog' = <<>>
        /\ start' = index
        /\ nops' = nops + 1
        /\ UNCHANGED <<bytes, status, script>>

\* a query or a range index with outcome r; it is the caller's last call
Inspect(op, arg, r) ==
    /\ CallerInspects
    /\ status' = CASE r.kind = "ok" -> "running"
                   [] r.kind = "diverges" -> "hung"
                   [] OTHER -> "panicked"
    /\ last' = Call(op, "none", arg, r.kind, r.value, None, 0)
    /\ wlog' = <<>>
    /\ replay' = <<>>
    /\ start' = pos
    /\ nops' = MaxOps
    /\ UNCHANGED <<bytes, pos, script>>

\* bytes[s..=e], bytes[..e], bytes[s..] on the Bytes container
index_inclusive ==
    \E s \in 0..MaxIdx, e \in 0..MaxIdx, loops \in BOOLEAN :
        Inspect("index_inclusive", Some(<<s, e>>),
                index_range_inclusive(bytes, s, e, MaxFrames, loops))

index_to ==
    \E e \in 0..MaxIdx, loops \in BOOLEAN :
        Inspect("index_to", Some(e), index_range_to(bytes, e, MaxFrames, loops))

index_from ==
    \E s \in 0..MaxIdx, loops \in BOOLEAN :
        Inspect("index_from", Some(s), index_range_from(bytes, s, MaxFrames, loops))

\* Buffered::pos, Buffered::index, Buffered<Bytes>::bytes, is_empty
call_pos == Inspect("pos", None, IRes("ok", Some(pos)))
call_index == Inspect("index", None, IRes("ok", Some(index_op(pos))))
call_bytes == Inspect("bytes", None, IRes("ok", Some(bytes)))
call_is_empty == Inspect("is_empty", None, IRes("ok", Some(is_empty_op(bytes))))

\* Buffered::remaining; a wrapped remainder 2^64 - d is the value <<-d>>
call_remaining ==
    \E checks \in BOOLEAN :
        LET r == remaining(bytes, pos, checks) IN
        Inspect("remaining", None,
                CASE r.kind = "ok" -> IRes("ok", Some(r.value))
                  [] r.kind = "wrapped" -> IRes("ok", Some(0 - r.value))
                  [] OTHER -> IRes("panic", None))

\* Buffered::is_available
AvailAmounts == {0, 1, 2, 3, 4, 8}

call_is_available ==
    \E amount \in AvailAmounts, checks \in BOOLEAN :
        LET r == is_available(bytes, pos, amount, checks) IN
        Inspect("is_available", Some(amount),
                IF r.kind = "ok" THEN IRes("ok", Some(r.value))
                ELSE IRes("panic", None))

Next ==
    \/ get_u8 \/ get_i8 \/ get_i16 \/ get_u16 \/ get_u24
    \/ get_i32 \/ get_u32 \/ get_i64 \/ get_u64 \/ get_str
    \/ put_u8 \/ put_i8 \/ put_i16 \/ put_u16 \/ put_u24
    \/ put_i32 \/ put_u32 \/ put_u64 \/ put_str
    \/ set_position

Spec == Init /\ [][Next]_vars

\* the free caller that may also inspect the cursor
InitQ == Init /\ ~script

NextQ ==
    \/ get_u8 \/ get_i8 \/ get_i16 \/ get_u16 \/ get_u24
    \/ get_i32 \/ get_u32 \/ get_i64 \/ get_u64 \/ get_str
    \/ put_u8 \/ put_i8 \/ put_i16 \/ put_u16 \/ put_u24
    \/ put_i32 \/ put_u32 \/ put_u64 \/ put_str
    \/ set_position
    \/ index_inclusive \/ index_to \/ index_from
    \/ call_pos \/ call_index \/ call_bytes \/ call_is_empty
    \/ call_remaining \/ call_is_available

SpecQ == InitQ /\ [][NextQ]_vars

\* ------------------------------------------------------- claim vocabulary
IsFixedGet(op) == IsGet(op) /\ op # "get_str"
IsIntPut(op) == IsPut(op) /\ op # "put_str"

\* the byte at offset i of the buffer as the last call found it
Byte0(i) == last.bytes0[i + 1]

\* the argument and the result of the last call
Arg == last.arg[1]
Value == last.value[1]
Expected == last.expect[1]

\* width in bytes of the field a fixed-width call moves
Width(op) ==
    CASE op \in {"get_u8", "get_i8", "put_u8", "put_i8"} -> 1
      [] op \in {"get_u16", "get_i16", "put_u16", "put_i16"} -> 2
      [] op \in {"get_u24", "put_u24"} -> 3
      [] op \in {"get_u32", "get_i32", "put_u32", "put_i32"} -> 4
      [] op \in {"get_u64", "get_i64", "put_u64"} -> 8

NoZero(s) == \A i \in 1..Len(s) : s[i] # 0

\* the offset of the first zero byte at an offset >= p, -1 if there is none
FirstZeroFrom(b, p) ==
    IF \E i \in (p + 1)..Len(b) : b[i] = 0
    THEN (CHOOSE i \in (p + 1)..Len(b) :
            b[i] = 0 /\ \A j \in (p + 1)..(i - 1) : b[j] # 0) - 1
    ELSE -1

\* ------------------------------------------------------------------ C1
\* C1: integer round trip over sequences.  After a run of integer puts that
\* all completed and set_position back to where the run started, each get of
\* the type written returns the value written, in the order written (for
\* u24, values below 2^24).
C1_IntegerRoundTrip ==
    (IsFixedGet(last.op) /\ last.expect # None
        /\ (last.ty = "u24" => Expected[2] < 256))
    => /\ last.kind = "ok"
       /\ IF last.ty = "u24" THEN Value = Expected[1] + 65536 * Expected[2]
          ELSE Value = Expected

\* the second field of a run, a u32 with all bytes distinct from its
\* neighbours, read back
C1_Witness ==
    /\ last.op = "get_u32"
    /\ last.seq = 2
    /\ last.expect = Some(<<772, 258>>)
    /\ last.kind = "ok"

\* ------------------------------------------------------------------ C2
\* C2: string round trip.  put_str(s) of a valid UTF-8 string without a
\* zero byte, when it completes, advances pos by len(s) + 1; after
\* set_position back to where it was written, get_str returns s and advances
\* pos by len(s) + 1.
C2_StringRoundTrip ==
    /\ (last.op = "put_str" /\ last.kind = "done"
            /\ ValidUtf8(Arg) /\ NoZero(Arg))
       => pos = last.pos0 + Len(Arg) + 1
    /\ (last.op = "get_str" /\ last.expect # None /\ last.seq = 1
            /\ ValidUtf8(Expected) /\ NoZero(Expected))
       => /\ last.kind = "ok"
          /\ Value = Expected
          /\ pos = last.pos0 + Len(Expected) + 1

\* ------------------------------------------------------------------ C3
\* C3: a fixed-width read of width w with pos + w > len returns
\* UnexpectedEof, does not abort, and leaves pos unchanged, also when pos
\* was placed past the end by set_position.
C3_ShortReadIsEof ==
    (IsFixedGet(last.op) /\ last.pos0 + Width(last.op) > Len(last.bytes0))
    => /\ last.kind = "eof"
       /\ status = "running"
       /\ pos = last.pos0

\* ------------------------------------------------------------------ C4
\* C4: writes do not fail.  Every put completes for every buffer length and
\* every position, the written bytes occupy [pos, pos + L) and pos advances
\* by L.
C4_Encoded ==
    IF last.op = "put_str" THEN Arg \o <<0>>
    ELSE IF last.op = "put_u24" THEN <<Arg[2] % 256, Arg[1] \div 256, Arg[1] % 256>>
    ELSE to_be_bytes(last.ty, Arg)

C4_WritesDoNotFail ==
    IsPut(last.op)
    => /\ last.kind = "done"
       /\ status = "running"
       /\ pos = last.pos0 + Len(C4_Encoded)
       /\ pos <= Len(bytes)
       /\ SubSeq(bytes, last.pos0 + 1, pos) = C4_Encoded

\* ------------------------------------------------------------------ C5
\* C5: when a get returns an error (UnexpectedEof or InvalidData), pos, the
\* buffer length and the buffer contents are what they were before the call.
C5_ReadErrorKeepsState ==
    (IsGet(last.op) /\ last.kind \in {"eof", "invalid_data"})
    => /\ pos = last.pos0
       /\ Len(bytes) = Len(last.bytes0)
       /\ bytes = last.bytes0
       /\ status = "running"

\* get_str has found a terminator and rejected the bytes before it
C5_Witness ==
    /\ last.op = "get_str"
    /\ last.kind = "invalid_data"
    /\ FirstZeroFrom(last.bytes0, last.pos0) > last.pos0

\* ------------------------------------------------------------------ C6
\* C6: get_str scans from the cursor.  With t the offset of the first zero
\* byte at an offset >= pos, a successful get_str returns the bytes
\* [pos, t) and sets pos to t + 1, and zero bytes below pos change neither
\* the result nor whether the call succeeds.
C6_ScansFromCursor ==
    last.op = "get_str"
    => LET t == FirstZeroFrom(last.bytes0, last.pos0)
           str == SubSeq(last.bytes0, last.pos0 + 1, t)
       IN /\ last.kind = "ok"
             => t >= 0 /\ Value = str /\ pos = t + 1
          /\ (t >= 0 /\ ValidUtf8(str)) => last.kind = "ok"

\* ------------------------------------------------------------------ C7
\* C7: get_str with no zero byte at an offset >= pos returns UnexpectedEof
\* and leaves pos unchanged.
C7_NoTerminatorIsEof ==
    (last.op = "get_str" /\ FirstZeroFrom(last.bytes0, last.pos0) < 0)
    => /\ last.kind = "eof"
       /\ status = "running"
       /\ pos = last.pos0

\* ------------------------------------------------------------------ C8
\* C8: a successful fixed-width get and a completed integer put advance pos
\* by the width of the type; a completed put_str(s) advances it by
\* len(s) + 1; a successful get_str advances it by the byte length of the
\* string returned plus 1.
C8_PositionAdvance ==
    /\ (IsFixedGet(last.op) /\ last.kind = "ok")
       => pos = last.pos0 + Width(last.op)
    /\ (IsIntPut(last.op) /\ last.kind = "done")
       => pos = last.pos0 + Width(last.op)
    /\ (last.op = "put_str" /\ last.kind = "done")
       => pos = last.pos0 + Len(Arg) + 1
    /\ (last.op = "get_str" /\ last.kind = "ok")
       => pos = last.pos0 + Len(Value) + 1

\* an eight-byte field read from a position other than 0
C8_Witness ==
    /\ last.op = "get_u64"
    /\ last.kind = "ok"
    /\ last.pos0 > 0
    /\ pos = last.pos0 + 8

\* ------------------------------------------------------------------ C9
\* C9: a successful get of width w returns the big-endian value of the
\* bytes at pos .. pos + w - 1, in two's complement for the signed types:
\* 80 00 read by get_i16 is -32768, 7F FF is 32767, and get_u24 is
\* (b0 << 16) | (b1 << 8) | b2.
C9_B(i) == Byte0(last.pos0 + i)

\* the most significant byte with the sign of a two's-complement field
C9_S == IF C9_B(0) >= 128 THEN C9_B(0) - 256 ELSE C9_B(0)

C9_BigEndianDecoding ==
    (IsFixedGet(last.op) /\ last.kind = "ok")
    => CASE last.op = "get_u8" -> Value = C9_B(0)
         [] last.op = "get_i8" -> Value = C9_S
         [] last.op = "get_u16" -> Value = C9_B(0) * 256 + C9_B(1)
         [] last.op = "get_i16" ->
                /\ Value = C9_S * 256 + C9_B(1)
                /\ (C9_B(0) = 128 /\ C9_B(1) = 0) => Value = -32768
                /\ (C9_B(0) = 127 /\ C9_B(1) = 255) => Value = 32767
         [] last.op = "get_u24" ->
                Value = C9_B(0) * 65536 + C9_B(1) * 256 + C9_B(2)
         [] last.op = "get_i32" ->
                Value = C9_S * 16777216 + C9_B(1) * 65536 + C9_B(2) * 256 + C9_B(3)
         [] last.op = "get_u32" ->
                Value = <<C9_B(2) * 256 + C9_B(3), C9_B(0) * 256 + C9_B(1)>>
         [] last.op = "get_u64" ->
                Value = <<C9_B(6) * 256 + C9_B(7), C9_B(4) * 256 + C9_B(5),
                          C9_B(2) * 256 + C9_B(3), C9_B(0) * 256 + C9_B(1)>>
         [] last.op = "get_i64" ->
                Value = <<C9_B(6) * 256 + C9_B(7), C9_B(4) * 256 + C9_B(5),
                          C9_B(2) * 256 + C9_B(3), C9_S * 256 + C9_B(1)>>

\* 80 00 read as the most negative i16
C9_Witness ==
    /\ last.op = "get_i16"
    /\ last.kind = "ok"
    /\ C9_B(0) = 128 /\ C9_B(1) = 0
    /\ Value = -32768

\* ----------------------------------------------------------------- C10
\* C10: put_u24(v) of a 32-bit v writes the three bytes (v >> 16) & 0xFF,
\* (v >> 8) & 0xFF, v & 0xFF; read_u24(write_u24(v)) = v & 0xFFFFFF; so
\* get_u24 from the position of the write returns v & 0xFFFFFF.
C10_Limbs == {0, 1, 255, 256, 48076, 65450, 65535}

C10_U24Truncation ==
    /\ (last.op = "put_u24" /\ last.kind = "done")
       => SubSeq(bytes, last.pos0 + 1, last.pos0 + 3)
            = <<Arg[2] % 256, Arg[1] \div 256, Arg[1] % 256>>
    /\ (last.op = "get_u24" /\ last.expect # None)
       => /\ last.kind = "ok"
          /\ Value = (Expected[2] % 256) * 65536 + Expected[1]
    /\ last.op = "using"
       => \A lo \in C10_Limbs, hi \in C10_Limbs :
            read_u24(write_u24(<<lo, hi>>)) = (hi % 256) * 65536 + lo

\* 0xFFAABBCC written and read back as 0xAABBCC
C10_Witness ==
    /\ last.op = "get_u24"
    /\ last.expect = Some(<<48076, 65450>>)
    /\ last.kind = "ok"
    /\ Value = 11189196

\* ----------------------------------------------------------------- C11
IsQuery(op) ==
    op \in {"index_inclusive", "index_to", "index_from", "pos", "index",
            "bytes", "is_empty", "remaining", "is_available"}

\* C11: range indexing on non-empty ranges returns, with the standard
\* sub-slice: bytes[s..=e] with s < e < len is the bytes at offsets s..e,
\* bytes[..e] with 0 < e <= len is the first e bytes, bytes[s..] with
\* s < len is the bytes from offset s to the end.
C11_NonEmptyRangeReturns ==
    LET n == Len(last.bytes0) IN
    /\ (last.op = "index_inclusive" /\ Arg[1] < Arg[2] /\ Arg[2] < n)
       => /\ last.kind = "ok"
          /\ Value = SubSeq(last.bytes0, Arg[1] + 1, Arg[2] + 1)
    /\ (last.op = "index_to" /\ 0 < Arg /\ Arg <= n)
       => /\ last.kind = "ok"
          /\ Value = SubSeq(last.bytes0, 1, Arg)
    /\ (last.op = "index_from" /\ Arg < n)
       => /\ last.kind = "ok"
          /\ Value = SubSeq(last.bytes0, Arg + 1, n)

\* ----------------------------------------------------------------- C12
\* C12: range indexing fallbacks.  bytes[s..=e] with e <= s, bytes[..0] and
\* bytes[s..] with s >= len return the empty slice and do not fail,
\* whatever the container holds.
C12_RangeFallbacks ==
    /\ (last.op = "index_inclusive" /\ Arg[2] <= Arg[1])
       => last.kind = "ok" /\ Value = <<>> /\ status = "running"
    /\ (last.op = "index_to" /\ Arg = 0)
       => last.kind = "ok" /\ Value = <<>> /\ status = "running"
    /\ (last.op = "index_from" /\ Arg >= Len(last.bytes0))
       => last.kind = "ok" /\ Value = <<>> /\ status = "running"

\* bytes[s..=s] on a non-empty container holding offset s
C12_Witness ==
    /\ last.op = "index_inclusive"
    /\ Arg[1] = Arg[2]
    /\ Arg[1] < Len(last.bytes0)
    /\ last.kind = "ok"
    /\ Value = <<>>

\* ----------------------------------------------------------------- C13
\* C13: the default-constructed cursor has pos = 0 and len = 0, is_empty()
\* holds, remaining() is 0, and every get on it returns UnexpectedEof.
C13_DefaultCursor ==
    /\ (last.op = "using" /\ bytes = <<>>) => pos = 0 /\ Len(bytes) = 0
    /\ (last.bytes0 = <<>> /\ last.pos0 = 0)
       => /\ IsGet(last.op) => last.kind = "eof" /\ status = "running"
          /\ last.op = "is_empty" => last.kind = "ok" /\ Value = TRUE
          /\ last.op = "remaining" => last.kind = "ok" /\ Value = 0
          /\ last.op = "pos" => Value = 0

\* get_str on the default cursor
C13_Witness ==
    /\ last.op = "get_str"
    /\ last.bytes0 = <<>>
    /\ last.pos0 = 0
    /\ nops = 1
    /\ last.kind = "eof"

\* ----------------------------------------------------------------- C14
\* C14: with pos <= len, remaining() + pos = len, and is_available(n) is
\* true exactly when pos + n <= len, which is exactly when a fixed-width
\* read of width n at pos succeeds; once reads have consumed all the
\* bytes, remaining() is 0 and is_available(1) is false.
C14_ReadSucceeds(T) ==
    IF T = "u24"
    THEN \A checks \in BOOLEAN :
            get_u24_op(last.bytes0, last.pos0, checks).kind = "ok"
    ELSE impl_get_bytes(last.bytes0, last.pos0, T).kind = "ok"

C14_AvailabilityPredictsReads ==
    LET n == Len(last.bytes0) IN
    /\ (last.op = "remaining" /\ last.pos0 <= n)
       => /\ last.kind = "ok"
          /\ Value + last.pos0 = n
          /\ (last.pos0 = n => Value = 0)
    /\ (last.op = "is_available" /\ last.pos0 <= n)
       => /\ last.kind = "ok"
          /\ Value = (last.pos0 + Arg <= n)
          /\ \A T \in GetTypes : SIZE(T) = Arg => (Value = C14_ReadSucceeds(T))
          /\ (last.pos0 = n /\ Arg = 1) => Value = FALSE

\* is_available(1) at the end of a non-empty buffer
C14_Witness ==
    /\ last.op = "is_available"
    /\ Arg = 1
    /\ last.pos0 = Len(last.bytes0)
    /\ last.pos0 > 0
    /\ Value = FALSE

\* ----------------------------------------------------------------- C15
\* C15: growth rule.  A completed write of L bytes at pos on a buffer of
\* length n leaves the length 2 * n when pos + L >= n (also when
\* pos + L = n) and n when pos + L < n; the bytes added outside the written
\* range are zero; an integer put grows the buffer by at most one doubling.
\* put_str is two such writes: the bytes of the string, then the
\* terminator.
C15_Grown(n, p, L) == IF p + L >= n THEN 2 * n ELSE n

C15_GrowthRule ==
    LET n == Len(last.bytes0) IN
    /\ (IsIntPut(last.op) /\ last.kind = "done")
       => /\ Len(bytes) = C15_Grown(n, last.pos0, Width(last.op))
          /\ Len(bytes) <= 2 * n
    /\ (last.op = "put_str" /\ last.kind = "done")
       => Len(bytes) = C15_Grown(C15_Grown(n, last.pos0, Len(Arg)),
                                 last.pos0 + Len(Arg), 1)
    /\ (IsPut(last.op) /\ last.kind = "done")
       => \A i \in (n + 1)..Len(bytes) :
            (i <= last.pos0 \/ i > pos) => bytes[i] = 0

\* a write that ends exactly at the end of the buffer doubles it
C15_Witness ==
    /\ IsIntPut(last.op)
    /\ last.kind = "done"
    /\ last.pos0 + Width(last.op) = Len(last.bytes0)
    /\ Len(bytes) = 2 * Len(last.bytes0)
    /\ Len(bytes) > pos

\* ----------------------------------------------------------------- C16
\* C16: monotonic position.  Every get and put, successful, failed or
\* growing the buffer, leaves pos at or above its previous value; pos
\* decreases only through set_position.
C16_MonotonicPosition ==
    /\ (IsGet(last.op) \/ IsPut(last.op)) => pos >= last.pos0
    /\ pos < last.pos0 => last.op = "set_position"

\* a put that grew the buffer and advanced pos
C16_Witness ==
    /\ IsPut(last.op)
    /\ last.kind = "done"
    /\ Len(bytes) > Len(last.bytes0)
    /\ pos > last.pos0
    /\ last.pos0 > 0

\* ----------------------------------------------------------------- C17
\* C17: position stays in bounds under codec operations.  A cursor is
\* constructed with pos = 0 <= len, and every get or put that completes
\* from a state with pos <= len leaves pos <= len, also when the write
\* grew the buffer; so pos <= len holds along every sequence of completed
\* gets and puts from a fresh cursor.
C17_PositionInBounds ==
    /\ last.op = "using" => pos = 0 /\ pos <= Len(bytes)
    /\ ((IsGet(last.op) \/ IsPut(last.op)) /\ last.kind # "panic"
            /\ last.pos0 <= Len(last.bytes0))
       => pos <= Len(bytes)

\* a put that leaves pos past the previous length, inside the new one
C17_Witness ==
    /\ IsPut(last.op)
    /\ last.kind = "done"
    /\ last.pos0 <= Len(last.bytes0)
    /\ pos > Len(last.bytes0)
    /\ pos <= Len(bytes)

\* ----------------------------------------------------------------- C18
\* C18: buffer length only doubles.  No call decreases the length, and
\* every call leaves it at the previous length times 2^k (k = 0 for every
\* call but a put, k <= 1 for an integer put, k <= 2 for put_str), so the
\* length is always the initial length times a power of two; a zero-length
\* buffer keeps length zero.
C18_LengthOnlyDoubles ==
    LET n == Len(last.bytes0) IN
    /\ Len(bytes) >= n
    /\ IF IsIntPut(last.op) THEN Len(bytes) \in {n, 2 * n}
       ELSE IF last.op = "put_str" THEN Len(bytes) \in {n, 2 * n, 4 * n}
       ELSE Len(bytes) = n
    /\ n = 0 => Len(bytes) = 0

\* put_str doubling the buffer twice
C18_Witness ==
    /\ last.op = "put_str"
    /\ last.kind = "done"
    /\ Len(last.bytes0) > 0
    /\ Len(bytes) = 4 * Len(last.bytes0)

\* ----------------------------------------------------------------- C19
\* C19: write frame.  A completed put of L bytes at pos changes only the
\* bytes at offsets [pos, pos + L) (L = len(s) + 1 for put_str): every byte
\* below the previous length and outside that range keeps its value, also
\* when the write grows the buffer.
C19_Length ==
    IF last.op = "put_str" THEN Len(Arg) + 1 ELSE Width(last.op)

C19_WriteFrame ==
    (IsPut(last.op) /\ last.kind = "done")
    => \A i \in 0..(Len(last.bytes0) - 1) :
         (i < last.pos0 \/ i >= last.pos0 + C19_Length)
         => /\ i < Len(bytes)
            /\ bytes[i + 1] = Byte0(i)

\* a growing put that keeps a non-zero byte right below it
C19_Witness ==
    /\ IsPut(last.op)
    /\ last.kind = "done"
    /\ Len(bytes) > Len(last.bytes0)
    /\ last.pos0 > 0
    /\ Byte0(last.pos0 - 1) # 0
    /\ bytes[last.pos0] = Byte0(last.pos0 - 1)

\* ----------------------------------------------------------------- C20
\* C20: read frame.  No get and no query changes the buffer contents or
\* its length; a query leaves pos unchanged too; a successful read changes
\* pos only, so reading again from the earlier position returns the same
\* value.
C20_Reread ==
    CASE last.op = "get_str" -> get_str_op(bytes, last.pos0)
      [] last.op = "get_u24" -> get_u24_op(bytes, last.pos0, TRUE)
      [] OTHER -> impl_get_bytes(bytes, last.pos0, last.ty)

C20_ReadFrame ==
    /\ (IsGet(last.op) \/ IsQuery(last.op))
       => bytes = last.bytes0 /\ Len(bytes) = Len(last.bytes0)
    /\ IsQuery(last.op) => pos = last.pos0
    /\ (IsGet(last.op) /\ last.kind = "ok")
       => /\ C20_Reread.kind = "ok"
          /\ C20_Reread.value = last.value
          /\ C20_Reread.pos = pos

\* a string read from a position other than 0
C20_Witness ==
    /\ last.op = "get_str"
    /\ last.kind = "ok"
    /\ Len(Value) > 0
    /\ last.pos0 > 0

====
